---- MODULE Spec2Model ----
(***************************************************************************)
(* A model of ENDF6.py, the ENDF-6 reader: the field decoder read_float,   *)
(* the line decoder read_line, the table reader read_table, the locators   *)
(* find_section and list_content, and the yield splitter find_yields.      *)
(*                                                                         *)
(* A Python str is modelled as a sequence of one-character strings, a list *)
(* as a sequence, a dict as a function, a raised exception as a value that *)
(* names it.  A float is modelled as an exact decimal m * 10^e (m not a    *)
(* multiple of 10), so binary rounding is left out; overflow to inf and    *)
(* underflow to 0.0 are kept.  Definitions are staged (one operator hands  *)
(* what it computed to the next as arguments) where the code binds a local *)
(* variable.                                                               *)
(***************************************************************************)
EXTENDS Integers, Sequences, FiniteSets, TLC

VARIABLES
    pc,          \* "start", then "loop" (inside find_yields), "returned",
                 \* "raised" (an exception left the call) or "quit" (quit())
    called,      \* the function that was called ("" before the call)
    given,       \* what the input was built from (kept to state the claims)
    field,       \* read_float's argument v
    line,        \* read_line's argument l
    lines,       \* the argument lines of read_table, find_section, ...
    MF, MT,      \* find_section's arguments
    result,      \* what the call returned or raised
    line_num,    \* find_yields: the cursor (a file line number, from 1)
    head_line,   \* find_yields: the section's first line
    yield_dict   \* find_yields: key -> block

vars == <<pc, called, given, field, line, lines, MF, MT, result, line_num, head_line, yield_dict>>

----------------------------------------------------------------------------
(* Python's built-ins, as far as ENDF6.py uses them.                       *)

Min(a, b) == IF a < b THEN a ELSE b
Max(a, b) == IF a > b THEN a ELSE b

\* The characters Python's str.strip() and float() treat as white space.
WhiteSpace == {" ", "\n", "\t", "\r"}

DigitChars == {"0", "1", "2", "3", "4", "5", "6", "7", "8", "9"}

DigitVal(c) ==
    CASE c = "0" -> 0 [] c = "1" -> 1 [] c = "2" -> 2 [] c = "3" -> 3
      [] c = "4" -> 4 [] c = "5" -> 5 [] c = "6" -> 6 [] c = "7" -> 7
      [] c = "8" -> 8 [] c = "9" -> 9

DigitChar(d) ==
    CASE d = 0 -> "0" [] d = 1 -> "1" [] d = 2 -> "2" [] d = 3 -> "3"
      [] d = 4 -> "4" [] d = 5 -> "5" [] d = 6 -> "6" [] d = 7 -> "7"
      [] d = 8 -> "8" [] d = 9 -> "9"

\* s[i:j] for a sequence s, with Python's clipping and its negative indices.
PyNorm(n, i) == IF i < 0 THEN Max(n + i, 0) ELSE Min(i, n)
PySlice(s, i, j) == SubSeq(s, PyNorm(Len(s), i) + 1, PyNorm(Len(s), j))

\* s[i:] for a sequence s.
PyFrom(s, i) == SubSeq(s, PyNorm(Len(s), i) + 1, Len(s))

\* s[i] is defined for -len(s) <= i < len(s); outside Python raises IndexError.
PyInRange(s, i) == -Len(s) <= i /\ i < Len(s)
PyIndex(s, i) == IF i < 0 THEN s[Len(s) + i + 1] ELSE s[i + 1]

\* s.strip()
PyStrip(s) ==
    LET keep == {i \in 1..Len(s) : s[i] \notin WhiteSpace}
    IN  IF keep = {} THEN <<>>
        ELSE SubSeq(s, CHOOSE i \in keep : \A k \in keep : i <= k,
                       CHOOSE j \in keep : \A k \in keep : k <= j)

\* s.replace(c, r) for a single character c.
RECURSIVE PyReplace(_, _, _)
PyReplace(s, c, r) ==
    IF s = <<>> THEN <<>>
    ELSE (IF Head(s) = c THEN r ELSE <<Head(s)>>) \o PyReplace(Tail(s), c, r)

\* str(n) for an int n.
RECURSIVE NatStr(_)
NatStr(n) == IF n < 10 THEN <<DigitChar(n)>> ELSE NatStr(n \div 10) \o <<DigitChar(n % 10)>>
PyStr(n) == IF n < 0 THEN <<"-">> \o NatStr(-n) ELSE NatStr(n)

\* '%ws' % x: x's text right-justified in w columns, never cut.
Blanks(n) == [i \in 1..n |-> " "]
PyFmt(w, s) == Blanks(w - Len(s)) \o s

----------------------------------------------------------------------------
(* Floats.                                                                 *)

RECURSIVE Pow10(_)
Pow10(n) == IF n <= 0 THEN 1 ELSE 10 * Pow10(n - 1)

Abs(n) == IF n < 0 THEN -n ELSE n

RECURSIVE NumDigits(_)
NumDigits(n) == IF Abs(n) < 10 THEN 1 ELSE 1 + NumDigits(Abs(n) \div 10)

\* A value: k = "float" with mantissa m and exponent e, k = "inf" with sign m,
\* or k an exception's name.
Val(k, m, e) == [k |-> k, m |-> m, e |-> e]
Raise(k) == Val(k, 0, 0)
Zero == Val("float", 0, 0)
IsFloat(x) == x.k \in {"float", "inf"}

\* The double nearest m * 10^e, m of up to nine digits: inf past the largest
\* double 1.797693134862315e308, 0.0 below half the smallest 4.94e-324, and
\* m * 10^e itself in between.
RECURSIVE Normal(_, _)
Normal(m, e) ==
    IF m = 0 THEN Zero
    ELSE IF m % 10 = 0 THEN Normal(m \div 10, e + 1)
    ELSE Val("float", m, e)

Sign(m) == IF m < 0 THEN -1 ELSE 1

\* The first nine digits of m's magnitude.
Lead9(m) == Abs(m) * Pow10(9 - NumDigits(m))

Rounded(x) ==
    IF x.m = 0 THEN Zero
    ELSE IF NumDigits(x.m) + x.e > 309 THEN Val("inf", Sign(x.m), 0)
    ELSE IF NumDigits(x.m) + x.e = 309 /\ Lead9(x.m) >= 179769314 THEN Val("inf", Sign(x.m), 0)
    ELSE IF NumDigits(x.m) + x.e < -323 THEN Zero
    ELSE IF NumDigits(x.m) + x.e = -323 /\ Lead9(x.m) <= 247032822 THEN Zero
    ELSE x

Double(m, e) == Rounded(Normal(m, e))

\* The value of the digits s[i..j-1].
RECURSIVE DigitsValue(_, _, _)
DigitsValue(s, i, j) ==
    IF j <= i THEN 0 ELSE 10 * DigitsValue(s, i, j - 1) + DigitVal(s[j - 1])

\* The index after the run of digits that starts at s[i].
RunEnd(s, i) ==
    CHOOSE j \in i..(Len(s) + 1) :
        /\ \A k \in i..(j - 1) : s[k] \in DigitChars
        /\ (j = Len(s) + 1 \/ s[j] \notin DigitChars)

IsSign(s, i) == i <= Len(s) /\ s[i] \in {"+", "-"}
SignAt(s, i) == IF i <= Len(s) /\ s[i] = "-" THEN -1 ELSE 1

\* float(v) for a str v: white space around
\* [sign] (digits [. [digits]] | . digits) [(e|E) [sign] digits];
\* anything else (inf, nan and digit-grouping underscores apart, which no
\* string of the model holds) raises ValueError.  The text is read from the
\* left: the integer part s[i0..i1-1], the fraction s[f0..f1-1], the exponent's
\* digits s[x0..x1-1].
FloatExponent(s, m, scale, f1, x0, x1) ==
    IF x1 = x0 \/ x1 /= Len(s) + 1 THEN Raise("ValueError")
    ELSE Double(m, SignAt(s, f1 + 1) * DigitsValue(s, x0, x1) - scale)

FloatMantissa(s, m, scale, f1) ==
    IF f1 = Len(s) + 1 THEN Double(m, -scale)
    ELSE IF s[f1] \notin {"e", "E"} THEN Raise("ValueError")
    ELSE IF f1 = Len(s) \/ (IsSign(s, f1 + 1) /\ f1 + 1 = Len(s)) THEN Raise("ValueError")
    ELSE FloatExponent(s, m, scale, f1,
                       IF IsSign(s, f1 + 1) THEN f1 + 2 ELSE f1 + 1,
                       RunEnd(s, IF IsSign(s, f1 + 1) THEN f1 + 2 ELSE f1 + 1))

FloatFraction(s, i0, i1, f0, f1) ==
    IF (i1 - i0) + (f1 - f0) = 0 THEN Raise("ValueError")
    ELSE FloatMantissa(s,
                       SignAt(s, 1) * (DigitsValue(s, i0, i1) * Pow10(f1 - f0)
                                         + DigitsValue(s, f0, f1)),
                       f1 - f0, f1)

FloatInteger(s, i0, i1) ==
    IF i1 <= Len(s) /\ s[i1] = "."
    THEN FloatFraction(s, i0, i1, i1 + 1, IF i1 = Len(s) THEN i1 + 1 ELSE RunEnd(s, i1 + 1))
    ELSE FloatFraction(s, i0, i1, i1, i1)

FloatText(s) ==
    IF s = <<>> \/ (IsSign(s, 1) /\ Len(s) = 1) THEN Raise("ValueError")
    ELSE FloatInteger(s, IF IsSign(s, 1) THEN 2 ELSE 1,
                      RunEnd(s, IF IsSign(s, 1) THEN 2 ELSE 1))

PyFloat(v) == FloatText(PyStrip(v))

\* int(x) for a float x: truncation towards zero; OverflowError for inf.
IntFails(x) == x.k = "inf"
PyInt(x) ==
    IF x.e >= 0 THEN x.m * Pow10(x.e)
    ELSE Sign(x.m) * (Abs(x.m) \div Pow10(-x.e))

----------------------------------------------------------------------------
(* read_float                                                              *)

\* The retry of the except branch.
Retried(v) ==
    PyFloat(<<v[1]>> \o PyReplace(PyReplace(PyFrom(v, 1), "+", <<"e", "+">>), "-", <<"e", "-">>))

DirectOr(v, direct) == IF direct.k /= "ValueError" THEN direct ELSE Retried(v)

read_float(v) ==
    IF PyStrip(v) = <<>> THEN Zero ELSE DirectOr(v, PyFloat(v))

----------------------------------------------------------------------------
(* slices and read_line                                                    *)

\* slices['data'], slices['MAT'], slices['MF'], slices['MT'] as <<start, stop>>.
FieldWidth == 11
slices_data == [i \in 1..6 |-> <<(i - 1) * FieldWidth, i * FieldWidth>>]
slices_MAT == <<66, 70>>
slices_MF == <<70, 72>>
slices_MT == <<72, 75>>

\* A list of values, or the exception that left the call.
List(f) == [k |-> "list", f |-> f]
Raised(k) == [k |-> k, f |-> <<>>]

\* The first exception among the values fs (a comprehension stops there).
FirstRaise(fs) ==
    LET bad == {i \in 1..Len(fs) : ~IsFloat(fs[i])}
    IN  IF bad = {} THEN "" ELSE fs[CHOOSE i \in bad : \A j \in bad : i <= j].k

\* The list read_line returns, unless a field raised.
Fields6(fs) == IF FirstRaise(fs) /= "" THEN Raised(FirstRaise(fs)) ELSE List(fs)

\* read_line as it would be if it rejected a record without all six fields.
read_line_rejecting(l) ==
    IF Len(l) < slices_data[6][2] THEN Raised("IndexError")
    ELSE Fields6([i \in 1..6 |-> read_float(PySlice(l, slices_data[i][1], slices_data[i][2]))])

read_line(l) ==
    Fields6([i \in 1..6 |-> read_float(PySlice(l, slices_data[i][1], slices_data[i][2]))])

----------------------------------------------------------------------------
(* The inputs: fields and lines as a tape holds them.                      *)

\* A real number as ENDF writes it, d.dddddd+e without the exponent marker and
\* with the sign in the first column: m gives the leading digits, |e| < 10.
RealField(m, e) ==
    LET s == NatStr(Abs(m))
        d == [i \in 1..7 |-> IF i <= Len(s) THEN s[i] ELSE "0"]
    IN  <<IF m < 0 THEN "-" ELSE " ", d[1], ".">> \o SubSeq(d, 2, 7)
            \o <<IF e < 0 THEN "-" ELSE "+", DigitChar(Abs(e))>>

\* A field that holds no number, and one that holds a number beyond a double.
MalformedField == PyFmt(FieldWidth, <<"1", ".", "5", "+", "+", "2">>)
HugeField == PyFmt(FieldWidth, <<"1", ".", "5", "+", "9", "9", "9">>)
IntField(n) == PyFmt(FieldWidth, PyStr(n))
BlankField == Blanks(FieldWidth)

\* The tag columns: MAT, MF, MT and a blank line number.
TagText(mat, mf, mt) ==
    PyFmt(4, PyStr(mat)) \o PyFmt(2, PyStr(mf)) \o PyFmt(3, PyStr(mt)) \o Blanks(5)

\* An 80-column record of six fields and its tags.
Record(fs, mat, mf, mt) ==
    fs[1] \o fs[2] \o fs[3] \o fs[4] \o fs[5] \o fs[6] \o TagText(mat, mf, mt)

----------------------------------------------------------------------------
(* Specification SpecFloat: read_float on one field.                       *)

\* The characters of a field's text, and the longest text tried.
FieldChars == {"+", "-", ".", "1", "2", "e"}
MaxText == 4

FieldTexts == UNION {[1..n -> FieldChars] : n \in 0..MaxText}

\* Every text at every place of an 11-column field, blanks around it, and
\* fields that a number fills, its sign in the first column.
Fields ==
    {Blanks(a) \o t \o Blanks(FieldWidth - a - Len(t)) :
        a \in 0..(FieldWidth - MaxText), t \in FieldTexts}
        \cup {RealField(m, e) : m \in {15, -15, -25}, e \in {-1, 2}}

InitFloat ==
    /\ pc = "start" /\ called = "" /\ result = <<>>
    /\ field \in Fields
    /\ given = <<>> /\ line = <<>> /\ lines = <<>>
    /\ MF = 0 /\ MT = 0 /\ line_num = 0 /\ head_line = <<>> /\ yield_dict = <<>>

CallReadFloat ==
    /\ pc = "start"
    /\ called' = "read_float"
    /\ result' = read_float(field)
    /\ pc' = IF IsFloat(result') THEN "returned" ELSE "raised"
    /\ UNCHANGED <<given, field, line, lines, MF, MT, line_num, head_line, yield_dict>>

NextFloat == CallReadFloat

SpecFloat == InitFloat /\ [][NextFloat]_vars

\* ENDF shorthand: leading blanks, an optional sign, the mantissa's digits, a
\* signed exponent and no exponent marker.  ShorthandParse reads it column by
\* column, without the text replacement that read_float uses.
ShorthandStart(v) == CHOOSE b \in 1..(Len(v) + 1) :
    (\A i \in 1..(b - 1) : v[i] = " ") /\ (b = Len(v) + 1 \/ v[b] /= " ")

ShorthandParse(v) ==
    LET b  == ShorthandStart(v)
        i0 == IF IsSign(v, b) THEN b + 1 ELSE b
        i1 == IF i0 <= Len(v) THEN RunEnd(v, i0) ELSE i0
        dot == i1 <= Len(v) /\ v[i1] = "."
        f0 == IF dot THEN i1 + 1 ELSE i1
        f1 == IF dot THEN RunEnd(v, f0) ELSE i1
        x1 == IF IsSign(v, f1) THEN RunEnd(v, f1 + 1) ELSE f1
    IN  [ok |-> /\ (i1 - i0) + (f1 - f0) > 0
                /\ IsSign(v, f1)
                /\ x1 > f1 + 1
                /\ x1 = Len(v) + 1,
         value |-> Double(SignAt(v, b) * (DigitsValue(v, i0, i1) * Pow10(f1 - f0)
                                            + DigitsValue(v, f0, f1)),
                          SignAt(v, f1) * DigitsValue(v, f1 + 1, x1) - (f1 - f0))]

\* C4: every field in ENDF shorthand decodes to mantissa * 10^exponent, the
\* marker going before the exponent's sign and never before the mantissa's.
C4_ShorthandDecodes ==
    (called = "read_float" /\ ShorthandParse(field).ok)
        => result = ShorthandParse(field).value

\* C4 where the code meets it: the same with the mantissa's sign, if any, in
\* the field's first column.
C4_ShorthandDecodesFromFirstColumn ==
    (called = "read_float" /\ ShorthandParse(field).ok
        /\ ~(IsSign(field, ShorthandStart(field)) /\ ShorthandStart(field) > 1))
        => result = ShorthandParse(field).value

\* C4's case: a negative number in shorthand was decoded.
C4_ShorthandRead ==
    called = "read_float" /\ ShorthandParse(field).ok /\ result.k = "float" /\ result.m < 0

----------------------------------------------------------------------------
(* Specification SpecLine: read_line on one record, whole or cut short.    *)

LineWidth == 80

FieldSamples == {BlankField, RealField(15, 2), RealField(-25, -1)}

InitLine ==
    /\ pc = "start" /\ called = "" /\ result = <<>>
    /\ \E fs \in [1..6 -> FieldSamples], n \in 0..LineWidth :
          /\ given = [record |-> Record(fs, 4025, 6, 5), n |-> n]
          /\ line = PySlice(given.record, 0, n)
    /\ field = <<>> /\ lines = <<>>
    /\ MF = 0 /\ MT = 0 /\ line_num = 0 /\ head_line = <<>> /\ yield_dict = <<>>

CallReadLine ==
    /\ pc = "start"
    /\ called' = "read_line"
    /\ result' = read_line(line)
    /\ pc' = IF result'.k = "list" THEN "returned" ELSE "raised"
    /\ UNCHANGED <<given, field, line, lines, MF, MT, line_num, head_line, yield_dict>>

NextLine == CallReadLine

SpecLine == InitLine /\ [][NextLine]_vars

\* C6, as claimed: decoding a record shorter than 80 columns fails.
C6_ShortLineFails ==
    (called = "read_line" /\ Len(line) < LineWidth) => pc = "raised"

\* C6, amended: a short record is decoded as the same record padded with blanks
\* to 80 columns, so that a field wholly beyond its end decodes to 0.0; its
\* length alone raises nothing.
C6_ShortLineReadAsPadded ==
    called = "read_line" =>
        /\ result = read_line(line \o Blanks(LineWidth - Len(line)))
        /\ result.k = "list" =>
              \A i \in 1..6 : slices_data[i][1] >= Len(line) => result.f[i] = Zero

\* C6's case: a record cut at column 30 was decoded, its first fields read
\* and its last one, not blank on the tape, given as 0.0.
C6_ShortLineRead ==
    /\ called = "read_line" /\ pc = "returned"
    /\ Len(line) = 30
    /\ result.f[1] /= Zero /\ result.f[2] /= Zero
    /\ PySlice(given.record, 55, 66) /= BlankField /\ result.f[6] = Zero

----------------------------------------------------------------------------
(* find_section and list_content                                           *)

\* s.index(x): the first place of x in s, from 0; -1 stands for ValueError.
PyFind(s, x) ==
    LET at == {i \in 1..Len(s) : s[i] = x}
    IN  IF at = {} THEN -1 ELSE (CHOOSE i \in at : \A j \in at : i <= j) - 1

\* s[::-1]
PyReverse(s) == [i \in 1..Len(s) |-> s[Len(s) + 1 - i]]

SectionRange(ls, i0, i1) ==
    IF i0 < 0 THEN Raised("ValueError") ELSE List(PySlice(ls, i0, i1))

SectionOf(ls, v, cmpstr) ==
    SectionRange(ls, PyFind(v, cmpstr), Len(v) - PyFind(PyReverse(v), cmpstr))

find_section(ls, mf, mt) ==
    SectionOf(ls, [i \in 1..Len(ls) |-> PySlice(ls[i], 70, 75)],
              PyFmt(2, PyStr(mf)) \o PyFmt(3, PyStr(mt)))

\* int(s) for a str s: white space around [sign] digits; ok is FALSE where
\* Python raises ValueError.
IntText(t, i0) ==
    [ok |-> i0 <= Len(t) /\ \A i \in i0..Len(t) : t[i] \in DigitChars,
     n  |-> SignAt(t, 1) * DigitsValue(t, i0, Len(t) + 1)]

PyIntOf(s) == IntText(PyStrip(s), IF IsSign(PyStrip(s), 1) THEN 2 ELSE 1)

Tag(l, s) == PyIntOf(PySlice(l, s[1], s[2]))

SetOf(f) == [k |-> "set", f |-> f]

\* A list_content that drops the all-zero triple only.
DiscardedIfAllZero(c) == c = <<0, 0, 0>>

\* The triples that list_content drops after collecting them.
Discarded(c) == 0 \in {c[1], c[2], c[3]}

\* content, the set of the lines' tags as ints, unless an int() raised.
Content(tags) ==
    IF \E i \in 1..Len(tags) : ~(tags[i][1].ok /\ tags[i][2].ok /\ tags[i][3].ok)
    THEN Raised("ValueError")
    ELSE SetOf({c \in {<<tags[i][1].n, tags[i][2].n, tags[i][3].n>> : i \in 1..Len(tags)} :
                  ~Discarded(c)})

list_content(ls) ==
    Content([i \in 1..Len(ls) |->
                <<Tag(ls[i], slices_MAT), Tag(ls[i], slices_MF), Tag(ls[i], slices_MT)>>])

----------------------------------------------------------------------------
(* Specification SpecLocate: find_section and list_content on a tape.      *)

\* The sections a tape may hold, as <<MAT, MF, MT>> in the tape's order
\* (increasing MAT, then MF, then MT), and the most records of one section.
Sections == << <<125, 3, 5>>, <<125, 3, 6>>, <<125, 6, 5>>,
               <<4025, 3, 5>>, <<4025, 3, 6>>, <<4025, 6, 5>> >>
MaxRecords == 2

\* Section i's records, and after the last record of a section, a file, a
\* material and the tape its delimiter: SEND (MT = 0), FEND (MF = MT = 0),
\* MEND (all 0) and TEND (MAT = -1).
Present(cnt, i) == i \in DOMAIN cnt /\ cnt[i] > 0
LastOf(cnt, i, same(_)) ==
    /\ \E j \in 1..i : same(j) /\ Present(cnt, j)
    /\ \A j \in (i + 1)..Len(Sections) : ~same(j)

RECURSIVE TapeFrom(_, _)
TapeFrom(cnt, i) ==
    IF i > Len(Sections) THEN << <<-1, 0, 0>> >>
    ELSE LET t == Sections[i]
             SameFile(j) == Sections[j][1] = t[1] /\ Sections[j][2] = t[2]
             SameMat(j) == Sections[j][1] = t[1]
         IN  [k \in 1..cnt[i] |-> t]
             \o (IF cnt[i] > 0 THEN << <<t[1], t[2], 0>> >> ELSE <<>>)
             \o (IF LastOf(cnt, i, SameFile) THEN << <<t[1], 0, 0>> >> ELSE <<>>)
             \o (IF LastOf(cnt, i, SameMat) THEN << <<0, 0, 0>> >> ELSE <<>>)
             \o TapeFrom(cnt, i + 1)

\* The tape's data records alone, which are in MAT, MF, MT order to the letter.
DataOnly(tape) == SelectSeq(tape, LAMBDA t : 0 \notin {t[1], t[2], t[3]})

TapeLine(t) == Record([i \in 1..6 |-> BlankField], t[1], t[2], t[3])

InitLocate ==
    /\ pc = "start" /\ called = "" /\ result = <<>>
    /\ \E cnt \in [1..Len(Sections) -> 0..MaxRecords], delimited \in BOOLEAN :
          /\ given = IF delimited THEN TapeFrom(cnt, 1) ELSE DataOnly(TapeFrom(cnt, 1))
          /\ lines = [i \in 1..Len(given) |-> TapeLine(given[i])]
    /\ field = <<>> /\ line = <<>>
    /\ MF = 0 /\ MT = 0 /\ line_num = 0 /\ head_line = <<>> /\ yield_dict = <<>>

CallFindSection ==
    /\ pc = "start"
    /\ \E i \in 1..Len(Sections) :
          /\ MF' = Sections[i][2]
          /\ MT' = Sections[i][3]
    /\ called' = "find_section"
    /\ result' = find_section(lines, MF', MT')
    /\ pc' = IF result'.k = "list" THEN "returned" ELSE "raised"
    /\ UNCHANGED <<given, field, line, lines, line_num, head_line, yield_dict>>

CallListContent ==
    /\ pc = "start"
    /\ called' = "list_content"
    /\ result' = list_content(lines)
    /\ pc' = IF result'.k = "set" THEN "returned" ELSE "raised"
    /\ UNCHANGED <<given, field, line, lines, MF, MT, line_num, head_line, yield_dict>>

NextLocate == CallFindSection \/ CallListContent

SpecLocate == InitLocate /\ [][NextLocate]_vars

\* The order of the tape's records: by MAT, then MF, then MT.
Tagged(t, mf, mt) == t[2] = mf /\ t[3] = mt

Before(s, t) ==
    \/ s[1] < t[1]
    \/ s[1] = t[1] /\ s[2] < t[2]
    \/ s[1] = t[1] /\ s[2] = t[2] /\ s[3] <= t[3]
InOrder(tape) == \A i \in 1..Len(tape), j \in 1..Len(tape) : i < j => Before(tape[i], tape[j])

\* C1: on a tape in MAT, MF, MT order that holds a record tagged (MF, MT),
\* find_section returns records that all carry that tag, and they are a
\* maximal contiguous run of the tape's records with that tag.
C1_SectionIsMaximalRun ==
    (/\ called = "find_section"
     /\ InOrder(given)
     /\ \E i \in 1..Len(given) : Tagged(given[i], MF, MT)) =>
        /\ pc = "returned"
        /\ \E a \in 1..Len(given), b \in 1..Len(given) :
              /\ result.f = SubSeq(lines, a, b)
              /\ \A i \in a..b : Tagged(given[i], MF, MT)
              /\ a = 1 \/ ~Tagged(given[a - 1], MF, MT)
              /\ b = Len(given) \/ ~Tagged(given[b + 1], MF, MT)

\* C1 where the code meets it: the same on a tape that holds the section in
\* one material only.
C1_SectionIsMaximalRunOfOneMaterial ==
    (/\ called = "find_section"
     /\ \E i \in 1..Len(given) : Tagged(given[i], MF, MT)
     /\ Cardinality({given[i][1] : i \in {j \in 1..Len(given) : Tagged(given[j], MF, MT)}}) = 1) =>
        /\ pc = "returned"
        /\ \E a \in 1..Len(given), b \in 1..Len(given) :
              /\ result.f = SubSeq(lines, a, b)
              /\ \A i \in a..b : Tagged(given[i], MF, MT)
              /\ a = 1 \/ ~Tagged(given[a - 1], MF, MT)
              /\ b = Len(given) \/ ~Tagged(given[b + 1], MF, MT)

\* C7: list_content returns exactly the distinct (MAT, MF, MT) of the tape's
\* records that have no zero component.
C7_ContentIsNonZeroTriples ==
    called = "list_content" =>
        /\ pc = "returned"
        /\ result.f = {given[i] : i \in {j \in 1..Len(given) : 0 \notin {given[j][1], given[j][2], given[j][3]}}}
        /\ \A c \in result.f : c[1] /= 0 /\ c[2] /= 0 /\ c[3] /= 0

\* C7's case: a tape with a delimiter of a material and the all-zero
\* delimiter was listed, and three triples or more returned.
C7_ContentListed ==
    /\ called = "list_content" /\ pc = "returned"
    /\ Cardinality(result.f) >= 3
    /\ \E i \in 1..Len(given) : given[i][1] /= 0 /\ given[i][3] = 0
    /\ \E i \in 1..Len(given) : given[i] = <<0, 0, 0>>

----------------------------------------------------------------------------
(* read_table                                                              *)

\* The x and the y of the data lines fs (each a list of six values), three
\* pairs a line.
PairsPerLine == 3
Column(fs, c) == [j \in 1..(PairsPerLine * Len(fs)) |->
    fs[(j - 1) \div PairsPerLine + 1][2 * ((j - 1) % PairsPerLine) + c]]

Table(x, y) == [k |-> "table", x |-> x, y |-> y]
NoTable(k) == [k |-> k, x |-> <<>>, y |-> <<>>]

\* read_table's result as it would be without the cut to nP points.
Untruncated(x, y, nP) == Table(x, y)

\* The cut x[:nP], y[:nP] that ends read_table.
Truncated(x, y, nP) == Table(PySlice(x, 0, nP), PySlice(y, 0, nP))

\* The data lines as they would be taken one line early.
DataLinesFromInterpolation(ls) == PyFrom(ls, 2)

\* The data lines lines[3:] of read_table's loop.
DataLines(ls) == PyFrom(ls, 3)

FirstBad(rows) == CHOOSE i \in 1..Len(rows) :
    rows[i].k /= "list" /\ \A j \in 1..(i - 1) : rows[j].k = "list"

\* read_table from line 1 on: f is the decoded line 1, rows the decoded data lines.
TableOf(f, rows) ==
    IF f.k /= "list" THEN NoTable(f.k)
    ELSE IF IntFails(f.f[5]) \/ IntFails(f.f[6]) THEN NoTable("OverflowError")
    ELSE IF \E i \in 1..Len(rows) : rows[i].k /= "list" THEN NoTable(rows[FirstBad(rows)].k)
    ELSE Truncated(Column([i \in 1..Len(rows) |-> rows[i].f], 1),
                   Column([i \in 1..Len(rows) |-> rows[i].f], 2), PyInt(f.f[6]))

read_table(ls) ==
    IF ~PyInRange(ls, 1) THEN NoTable("IndexError")
    ELSE TableOf(read_line(PyIndex(ls, 1)),
                 [i \in 1..Len(DataLines(ls)) |-> read_line(DataLines(ls)[i])])

----------------------------------------------------------------------------
(* Specification SpecTable: read_table on a section of MF 3.               *)

\* The largest point count declared (and -MaxPoints the smallest), and the
\* most data lines present.
MaxPoints == 7
MaxDataLines == 3

\* The HEAD line [ZA, AWR, 0, 0, 0, 0], the TAB1 line [QM, QI, 0, LR, NR, NP],
\* the interpolation line [NBT, INT] and the data lines, three (x, y) pairs a
\* line: point p is (p, p/10), and the places past point np are blank.
HeadRecord(nk, mf, mt) ==
    Record(<<RealField(4009, 4), RealField(891324, 1), IntField(0), IntField(0),
             IntField(nk), IntField(0)>>, 4025, mf, mt)
Tab1Record(c1, c2, l1, l2, nr, np, mf, mt) ==
    Record(<<c1, c2, l1, l2, nr, np>>, 4025, mf, mt)
InterpolationRecord(np, mf, mt) ==
    Record(<<IntField(np), IntField(2), BlankField, BlankField, BlankField, BlankField>>,
           4025, mf, mt)
PointField(p, np, e) == IF np < 1 \/ p <= np THEN RealField(p, e) ELSE BlankField
DataRecord(j, np, mf, mt) ==
    LET p == PairsPerLine * (j - 1)
    IN  Record(<<PointField(p + 1, np, 0), PointField(p + 1, np, -1),
                 PointField(p + 2, np, 0), PointField(p + 2, np, -1),
                 PointField(p + 3, np, 0), PointField(p + 3, np, -1)>>, 4025, mf, mt)
SpoiltRecord(mf, mt) ==
    Record(<<RealField(1, 0), MalformedField, BlankField, BlankField, BlankField, BlankField>>,
           4025, mf, mt)

\* A section of MF 3 that declares np points and holds k data lines; flaw
\* puts a malformed or a huge number in it.
TableSection(np, k, flaw) ==
    <<HeadRecord(0, 3, 5),
      Tab1Record(RealField(0, 0), RealField(0, 0), IntField(0), IntField(0), IntField(1),
                 CASE flaw = "malformed NP" -> MalformedField
                   [] flaw = "huge NP" -> HugeField
                   [] OTHER -> IntField(np), 3, 5),
      InterpolationRecord(np, 3, 5)>>
    \o [j \in 1..k |-> IF flaw = "malformed data" /\ j = k THEN SpoiltRecord(3, 5)
                       ELSE DataRecord(j, np, 3, 5)]

Flaws == {"none", "malformed NP", "huge NP", "malformed data"}

InitTable ==
    /\ pc = "start" /\ called = "" /\ result = <<>>
    /\ \E np \in (-MaxPoints)..MaxPoints, k \in 0..MaxDataLines, flaw \in Flaws :
          \E n \in 0..(3 + k) :
              /\ flaw \in {"malformed NP", "huge NP"} => n >= 2
              /\ flaw = "malformed data" => k >= 1 /\ n = 3 + k
              /\ given = [np |-> np, flaw |-> flaw]
              /\ lines = SubSeq(TableSection(np, k, flaw), 1, n)
    /\ field = <<>> /\ line = <<>>
    /\ MF = 0 /\ MT = 0 /\ line_num = 0 /\ head_line = <<>> /\ yield_dict = <<>>

CallReadTable ==
    /\ pc = "start"
    /\ called' = "read_table"
    /\ result' = read_table(lines)
    /\ pc' = IF result'.k = "table" THEN "returned" ELSE "raised"
    /\ UNCHANGED <<given, field, line, lines, MF, MT, line_num, head_line, yield_dict>>

NextTable == CallReadTable

SpecTable == InitTable /\ [][NextTable]_vars

\* The lines of the range from index 3 on.
NumDataLines == Max(Len(lines) - 3, 0)

\* C3, as claimed: x and y each have exactly the NP elements that line 1
\* declares.
C3_ExactlyNP ==
    (called = "read_table" /\ pc = "returned" /\ given.np >= 0) =>
        Len(result.x) = given.np /\ Len(result.y) = given.np

\* C3, amended: x and y have the same length, which is NP cut to the three
\* pairs of each data line present (and for a negative NP what is left of those
\* pairs without the last -NP); it is NP when NP >= 0 and the range holds at
\* least ceil(NP/3) data lines, padding pairs or not.
C3_NPWithinDataPresent ==
    (called = "read_table" /\ pc = "returned") =>
        /\ Len(result.x) = Len(result.y)
        /\ given.np >= 0 => Len(result.x) = Min(given.np, PairsPerLine * NumDataLines)
        /\ given.np < 0 => Len(result.x) = Max(PairsPerLine * NumDataLines + given.np, 0)
        /\ (given.np >= 0 /\ PairsPerLine * NumDataLines >= given.np) =>
              /\ Len(result.x) = given.np
              /\ \A p \in 1..given.np : result.x[p] = Double(p, 0) /\ result.y[p] = Double(p, -1)

\* C3's case: 4 points on 2 data lines, the 2 padding pairs left out.
C3_PaddingDiscarded ==
    /\ called = "read_table" /\ pc = "returned"
    /\ given.np = 4 /\ NumDataLines = 2 /\ Len(result.x) = 4 /\ Len(result.y) = 4

\* C10, as claimed: a range of fewer than 4 lines gives an empty table, and
\* nothing fails but the decoding of a line's fields to finite numbers.
C10_ShortRangeEmpty ==
    (called = "read_table" /\ Len(lines) < 4) =>
        \/ pc = "returned" /\ result.x = <<>> /\ result.y = <<>>
        \/ pc = "raised" /\ result.k \in {"ValueError", "OverflowError"} /\ given.flaw /= "none"

\* C10, amended: a range of 2 or 3 lines gives an empty table unless line 1
\* does not decode (ValueError) or holds an infinite NR or NP (OverflowError);
\* a range of 0 or 1 lines fails with IndexError, line 1 being absent.
C10_ShortRangeEmptyOrIndexError ==
    (called = "read_table" /\ Len(lines) < 4) =>
        /\ Len(lines) < 2 => pc = "raised" /\ result.k = "IndexError"
        /\ Len(lines) >= 2 =>
              \/ pc = "returned" /\ result.x = <<>> /\ result.y = <<>> /\ given.flaw \in {"none", "malformed data"}
              \/ pc = "raised" /\ result.k = "ValueError" /\ given.flaw = "malformed NP"
              \/ pc = "raised" /\ result.k = "OverflowError" /\ given.flaw = "huge NP"

\* C10's case: a range of 3 lines that declares 2 points gave an empty table.
C10_ShortRangeRead ==
    /\ called = "read_table" /\ pc = "returned"
    /\ Len(lines) = 3 /\ given.np = 2 /\ result.x = <<>>

----------------------------------------------------------------------------
(* find_yields                                                             *)

\* int(values[4]) of get_num_subsections; k names what was raised, if anything.
NumSubsections(values) ==
    IF values.k /= "list" THEN [k |-> values.k, n |-> 0]
    ELSE IF IntFails(values.f[5]) THEN [k |-> "OverflowError", n |-> 0]
    ELSE [k |-> "int", n |-> PyInt(values.f[5])]

get_num_subsections(ls) == NumSubsections(read_line(PyIndex(ls, 0)))

NoHeader(k) == [k |-> k, ZAP |-> 0, AWR |-> Zero, LIP |-> 0, LAW |-> 0, NR |-> 0, NP |-> 0]

Header(values) ==
    IF values.k /= "list" THEN NoHeader(values.k)
    ELSE IF \E i \in {1, 3, 4, 5, 6} : IntFails(values.f[i]) THEN NoHeader("OverflowError")
    ELSE [k |-> "header", ZAP |-> PyInt(values.f[1]), AWR |-> values.f[2],
          LIP |-> PyInt(values.f[3]), LAW |-> PyInt(values.f[4]),
          NR |-> PyInt(values.f[5]), NP |-> PyInt(values.f[6])]

parse_header(l) == Header(read_line(l))

\* The two checks that end in quit(), as they would be without the second.
UnsupportedInterpolationOnly(NR, LAW) == NR > 1

\* The two checks that end in quit().
Unsupported(NR, LAW) == NR > 1 \/ LAW > 0

\* int(np.ceil(NP/3.0))
DataLineCount(NP) == -((-NP) \div PairsPerLine)

\* lines[line_num-1:line_num-1 + data_lines+2]
YieldSection(ls, n, data_lines) == PySlice(ls, n - 1, n - 1 + data_lines + 2)

\* The dict key of a product.
Key(ZAP, LIP) == IF LIP > 0 THEN PyStr(ZAP) \o <<"m">> ELSE PyStr(ZAP)

\* d[key] = block
Store(d, key, block) ==
    [x \in DOMAIN d \cup {key} |-> IF x = key THEN block ELSE d[x]]

Dict(d) == [k |-> "dict", f |-> d]

----------------------------------------------------------------------------
(* Specification SpecYield: find_yields on a tape with a section MF 6,     *)
(* MT 5.                                                                   *)

\* The most subsections a section holds or declares.
MaxSubsections == 2

\* A subsection as the tape holds it: its TAB1 line [ZAP, AWP, LIP, LAW, NR,
\* NP], its interpolation line and k data lines.  A sound one has LAW 0, NR 1
\* and the ceil(NP/3) data lines of its NP points; a flawed one differs from
\* a sound one in its LAW, its NR, its NP or its data lines.
Subsection(lip, law, nr, np, k) == [lip |-> lip, law |-> law, nr |-> nr, np |-> np, k |-> k]
SoundSubsections ==
    {Subsection(lip, 0, 1, 2, DataLineCount(2)) : lip \in 0..2}
        \cup {Subsection(0, 0, 1, np, DataLineCount(np)) : np \in {0, 4}}
FlawedSubsections ==
    {Subsection(0, law, 1, 2, 1) : law \in {-1, 1}}
        \cup {Subsection(0, 0, nr, 2, 1) : nr \in {0, 2}}
        \cup {Subsection(0, 0, 1, np, 0) : np \in {-9, -6}}
        \cup {Subsection(0, 0, 1, 7, 1)}
Subsections == SoundSubsections \cup FlawedSubsections

SubsectionRecords(s) ==
    <<Tab1Record(RealField(41091, 4), RealField(9, 1), IntField(s.lip), IntField(s.law),
                 IntField(s.nr), IntField(s.np), 6, 5),
      InterpolationRecord(s.np, 6, 5)>>
    \o [j \in 1..s.k |-> DataRecord(j, s.np, 6, 5)]

RECURSIVE Flat(_)
Flat(ss) == IF ss = <<>> THEN <<>> ELSE Head(ss) \o Flat(Tail(ss))

YieldRecords(nk, subs) ==
    <<HeadRecord(nk, 6, 5)>> \o Flat([i \in 1..Len(subs) |-> SubsectionRecords(subs[i])])

\* The tape: a line of MF 3, the section MF 6, MT 5 and the delimiters.
YieldTape(nk, subs) ==
    <<HeadRecord(0, 3, 5), TapeLine(<<4025, 3, 0>>), TapeLine(<<4025, 0, 0>>)>>
    \o YieldRecords(nk, subs)
    \o <<TapeLine(<<4025, 6, 0>>), TapeLine(<<4025, 0, 0>>), TapeLine(<<0, 0, 0>>),
         TapeLine(<<-1, 0, 0>>)>>

InitYield ==
    /\ pc = "start" /\ called = "" /\ result = <<>>
    /\ \E nk \in 0..MaxSubsections :
          \E subs \in UNION {[1..n -> Subsections] : n \in 0..MaxSubsections} :
              /\ given = [nk |-> nk, subs |-> subs]
              /\ lines = YieldTape(nk, subs)
    /\ field = <<>> /\ line = <<>>
    /\ MF = 0 /\ MT = 0 /\ line_num = 0 /\ head_line = <<>> /\ yield_dict = <<>>

\* find_yields up to its loop: the section is found, returned whole if it
\* declares no subsection, and the cursor set on its second line otherwise.
Enter(section, nsub) ==
    IF section.k /= "list" THEN
        /\ pc' = "raised" /\ result' = Raised(section.k)
        /\ UNCHANGED <<lines, line_num, head_line, yield_dict>>
    ELSE IF nsub.k /= "int" THEN
        /\ pc' = "raised" /\ result' = Raised(nsub.k)
        /\ lines' = section.f
        /\ UNCHANGED <<line_num, head_line, yield_dict>>
    ELSE IF nsub.n = 0 THEN
        /\ pc' = "returned" /\ result' = List(section.f)
        /\ lines' = section.f
        /\ UNCHANGED <<line_num, head_line, yield_dict>>
    ELSE
        /\ pc' = "loop"
        /\ lines' = section.f
        /\ yield_dict' = <<>>
        /\ head_line' = section.f[1]
        /\ line_num' = 2
        /\ UNCHANGED result

CallFindYields ==
    /\ pc = "start"
    /\ called' = "find_yields"
    /\ Enter(find_section(lines, 6, 5),
             IF find_section(lines, 6, 5).k = "list"
             THEN get_num_subsections(find_section(lines, 6, 5).f)
             ELSE [k |-> "", n |-> 0])
    /\ UNCHANGED <<given, field, line, MF, MT>>

\* One pass of the while loop, the header at the cursor parsed to h.
Pass(h) ==
    IF h.k /= "header" THEN
        /\ pc' = "raised" /\ result' = Raised(h.k)
        /\ UNCHANGED <<line_num, yield_dict>>
    ELSE IF Unsupported(h.NR, h.LAW) THEN
        /\ pc' = "quit" /\ result' = Raised("SystemExit")
        /\ UNCHANGED <<line_num, yield_dict>>
    ELSE
        /\ yield_dict' = Store(yield_dict, Key(h.ZAP, h.LIP),
                               <<head_line>> \o YieldSection(lines, line_num, DataLineCount(h.NP)))
        /\ line_num' = line_num + DataLineCount(h.NP) + 2
        /\ UNCHANGED <<pc, result>>

LoopPass ==
    /\ pc = "loop"
    /\ line_num <= Len(lines)
    /\ IF PyInRange(lines, line_num - 1)
       THEN Pass(parse_header(PyIndex(lines, line_num - 1)))
       ELSE /\ pc' = "raised" /\ result' = Raised("IndexError")
            /\ UNCHANGED <<line_num, yield_dict>>
    /\ UNCHANGED <<called, given, field, line, lines, MF, MT, head_line>>

LoopExit ==
    /\ pc = "loop"
    /\ ~(line_num <= Len(lines))
    /\ pc' = "returned"
    /\ result' = Dict(yield_dict)
    /\ UNCHANGED <<called, given, field, line, lines, MF, MT, line_num, head_line, yield_dict>>

NextYield == CallFindYields \/ LoopPass \/ LoopExit

SpecYield == InitYield /\ [][NextYield]_vars

\* The header at the cursor, where the cursor is on a line.
OnLine == pc = "loop" /\ line_num <= Len(lines) /\ PyInRange(lines, line_num - 1)
CursorHeader == parse_header(PyIndex(lines, line_num - 1))

\* The header of a stored block, which is its second line.
BlockHeader(block) == parse_header(block[2])

\* C2: a section that declares N >= 1 subsections, and holds just these N,
\* each of them sound and no two of them of the same product and isomeric
\* state, gives a mapping of exactly N entries.
C2_EntriesAsDeclared ==
    (/\ called = "find_yields" /\ pc = "returned"
     /\ given.nk >= 1 /\ given.nk = Len(given.subs)
     /\ \A i \in 1..Len(given.subs) : given.subs[i] \in SoundSubsections
     /\ \A i, j \in 1..Len(given.subs) : i /= j => given.subs[i].lip /= given.subs[j].lip) =>
        result.k = "dict" /\ Cardinality(DOMAIN result.f) = given.nk

C8_CursorIncreases ==
    [][(pc = "loop" /\ pc' = "loop") => line_num' > line_num]_vars

\* C9: every stored block is the section's first line followed by the
\* subsection's header line, its interpolation line and its ceil(np/3) data
\* lines: 3 + ceil(np/3) lines.
C9_BlockIsHeadAndSubsection ==
    \A key \in DOMAIN yield_dict :
        /\ yield_dict[key][1] = lines[1]
        /\ Len(yield_dict[key]) >= 2
        /\ Len(yield_dict[key]) = 3 + DataLineCount(BlockHeader(yield_dict[key]).NP)
        /\ \E a \in 1..Len(lines) :
              Tail(yield_dict[key]) = SubSeq(lines, a, a + Len(yield_dict[key]) - 2)

\* C9 where the code meets it: the same for the sections whose subsections
\* are all sound.
C9_BlockIsHeadAndSubsectionOfSound ==
    (\A i \in 1..Len(given.subs) : given.subs[i] \in SoundSubsections) =>
        C9_BlockIsHeadAndSubsection

====
